---- MODULE Spec2Model ----
(***************************************************************************)
(* Request-rate and usage-quota enforcement of the TariffNavigator backend *)
(* (backend/app/services/rate_limiter.py, backend/app/api/                 *)
(* deps_rate_limit.py, backend/app/middleware/rate_limit.py,               *)
(* backend/app/models/rate_limit.py), with the retention cleanup and the   *)
(* job scheduler (backend/app/services/scheduler.py).                      *)
(*                                                                         *)
(* Every request handler is a coroutine with its own database session.     *)
(* A coroutine runs without interruption between two awaits; each awaited  *)
(* database statement (SELECT, commit of an INSERT or UPDATE) is one       *)
(* atomic step of the store, and other handlers may run between them.      *)
(* The ORM writes the value it computed in memory (UPDATE ... SET          *)
(* request_count = :v WHERE id = :id), not an in-store increment.          *)
(***************************************************************************)
EXTENDS Integers, Sequences, FiniteSets, TLC

\* ---------------------------------------------------------------- bounds
MaxTime == 3        \* the clock runs from 0 to MaxTime
MaxLimit == 2       \* configured request limits are 0..MaxLimit
MaxWindow == 2      \* configured window lengths are 1..MaxWindow
MaxCalls == 3       \* calls started in one behaviour, and concurrent handlers
MaxQuota == 2       \* Organization.max_calculations_per_month is 0..MaxQuota
TicksPerMonth == 2  \* clock ticks in one calendar month
MaxDays == 2        \* the days argument of the cleanup functions is 0..MaxDays,
                    \* a day lasting one clock tick
MaxSweeps == 2      \* cleanup runs in one behaviour

\* limit and remaining reported when a check is bypassed
\* (deps_rate_limit.py:51-52, 148-149)
Unlimited == 999999
\* USER_RATE_LIMITS_BY_ROLE["superadmin"]
SuperadminLimit == 999999
\* a column holding no value (None, NULL)
NULL == "NULL"

Procs == 1..MaxCalls
\* (identifier, identifier_type) pairs the handlers are called with
RateKeys == {<<"a", "ip">>, <<"a", "user">>, <<"b", "ip">>}
Orgs == {"org1", "org2"}
Epoch == <<2024, 11>>   \* year and month of clock value 0
Ips == {"a"}            \* client address seen by the middleware
Users == {"a"}          \* current_user.id of the authenticated user
\* the ids register_jobs gives to scheduler.add_job
Jobs == {"tariff_monitor", "daily_digest", "weekly_digest", "external_monitor"}

VARIABLES
    now,            \* datetime.utcnow() (rate_limiter.py:39, deps_rate_limit.py:163)
    window_seconds, \* RATE_LIMIT_WINDOW_SECONDS (rate_limit_config.py:57), the
                    \* window_seconds every caller passes to check_rate_limit
    limit,          \* the configured limit passed to check_rate_limit
                    \* (rate_limit_config.py:12-28, rate_limiter.py:20)
    rate_limits,    \* table rate_limits (models/rate_limit.py:8-27)
    quota_usage,    \* table organization_quota_usage (models/rate_limit.py:33-55)
    violations,     \* table rate_limit_violations (models/rate_limit.py:78-94)
    org_max,        \* Organization.max_calculations_per_month (models/organization.py:17)
    users,          \* ids of the rows of table users (models/user.py)
    unique_index,   \* idx_quota_lookup is unique when created by migration 005
                    \* (005_add_rate_limiting.py:64), not unique when created from
                    \* the ORM metadata (models/rate_limit.py:52-55, db/session.py:22)
    uuid,           \* number of primary keys handed out by uuid.uuid4()
    pc,             \* the await each handler is suspended at
    loc,            \* the local variables of each handler
    calls,          \* history: arguments and result of every check_rate_limit call
    qcalls,         \* history: arguments and outcome of every
                    \* check_calculation_quota call
    sweeps,         \* history: every run of cleanup_old_records and
                    \* cleanup_old_violations (rate_limiter.py:128-164)
    scheduler       \* the APScheduler instance (services/scheduler.py:27): whether
                    \* it runs, and how often each registered job has been
                    \* executed, counted modulo 2

vars == <<now, window_seconds, limit, rate_limits, quota_usage, violations,
          org_max, users, unique_index, uuid, pc, loc, calls, qcalls, sweeps,
          scheduler>>

rateVars == <<rate_limits, calls>>
quotaVars == <<quota_usage, violations, qcalls>>
confVars == <<window_seconds, limit, org_max, users, unique_index>>
opsVars == <<sweeps, scheduler>>

\* ---------------------------------------------------------------- helpers
NoLocals == [call |-> 0, rec |-> 0, cnt |-> 0, lim |-> 0, omax |-> 0, reset |-> 0]

\* result.scalar_one_or_none(): None, the row, or MultipleResultsFound
ScalarOneOrNone(rows) ==
    IF rows = {} THEN "none"
    ELSE IF Cardinality(rows) = 1 THEN "one"
    ELSE "multiple"

\* A new request is served by the first free handler slot.
FreeSlot(p) == pc[p] = "idle" /\ \A q \in Procs : q < p => pc[q] # "idle"

Finish(p) ==
    /\ pc' = [pc EXCEPT ![p] = "idle"]
    /\ loc' = [loc EXCEPT ![p] = NoLocals]

\* ---------------------------------------------------------------- clock
Tick ==
    /\ now < MaxTime
    /\ now' = now + 1
    /\ UNCHANGED <<confVars, opsVars, rateVars, quotaVars, uuid, pc, loc>>

\* ------------------------------------------------- RateLimiterService
\* the lookup with a window still matching at the instant it ends
ActiveWindows_InclusiveEnd(identifier, identifier_type, t) ==
    {r \in rate_limits :
        /\ r.identifier = identifier
        /\ r.identifier_type = identifier_type
        /\ r.window_start >= t - window_seconds
        /\ r.window_end >= t}

\* the lookup by identifier alone, whatever its type
ActiveWindows_AnyType(identifier, identifier_type, t) ==
    {r \in rate_limits :
        /\ r.identifier = identifier
        /\ r.window_start >= t - window_seconds
        /\ r.window_end > t}

\* WHERE clause of the window lookup
ActiveWindows(identifier, identifier_type, t) ==
    {r \in rate_limits :
        /\ r.identifier = identifier
        /\ r.identifier_type = identifier_type
        /\ r.window_start >= t - window_seconds
        /\ r.window_end > t}

\* the limit test off by one
LimitExceeded_OffByOne(record, lim) == record.request_count > lim

LimitExceeded(record, lim) == record.request_count >= lim

IncrementedCount(record) == record.request_count + 1

NewRateLimit(id, identifier, identifier_type, t) ==
    [id |-> id,
     identifier |-> identifier,
     identifier_type |-> identifier_type,
     request_count |-> 1,
     window_start |-> t,
     window_end |-> t + window_seconds,
     created_at |-> now]

\* one entry of the call history: the arguments of a check_rate_limit call,
\* the caller it was made through ("service": called directly, "ip":
\* RateLimitMiddleware.dispatch, "user": check_user_rate_limit, "both":
\* check_user_rate_and_quota), the tuple it
\* returned and what became of the request
NewCall(identifier, identifier_type, via) ==
    [identifier |-> identifier,
     identifier_type |-> identifier_type,
     via |-> via,
     now |-> now,
     limit |-> limit,
     result |-> "pending",
     row |-> 0,
     count |-> 0,
     remaining |-> 0,
     reset_time |-> 0,
     response |-> "none",
     violation |-> 0,
     store_failed |-> FALSE,
     log_failed |-> FALSE,
     handler_calls |-> 0,
     role |-> "user",
     is_superuser |-> FALSE,
     organization_id |-> NULL]

\* now = datetime.utcnow(); the SELECT is sent and the coroutine suspends
StartCall(p, identifier, identifier_type, via) ==
    /\ FreeSlot(p)
    /\ Len(calls) < MaxCalls
    /\ calls' = Append(calls, NewCall(identifier, identifier_type, via))
    /\ pc' = [pc EXCEPT ![p] = "rl_select"]
    /\ loc' = [loc EXCEPT ![p] = [NoLocals EXCEPT !.call = Len(calls) + 1]]
    /\ UNCHANGED <<now, confVars, opsVars, rate_limits, quotaVars, uuid>>

RateBegin(p, identifier, identifier_type) ==
    StartCall(p, identifier, identifier_type, "service")

\* the middleware without its except clause: an exception of the check ends
\* the request
AfterCheck_NoExceptClause(via, result) ==
    IF via = "ip"
    THEN (IF result = "allowed" THEN "mw_next"
          ELSE IF result = "rejected" THEN "mw_log"
          ELSE "idle")
    ELSE IF via = "user" /\ result = "rejected" THEN "u_log"
    ELSE "idle"

\* check_user_rate_and_quota going on to the quota check whatever the rate
\* check returned
AfterCheck_QuotaAnyway(via, result) ==
    IF via = "both" /\ result \in {"allowed", "rejected"} THEN "q_begin"
    ELSE IF via = "user" /\ result = "rejected" THEN "u_log"
    ELSE "idle"

\* where the caller of check_rate_limit goes on once the call has returned or
\* raised: the middleware logs the violation, calls the handler, or lands in
\* its except clause; check_user_rate_limit logs the violation, returns to
\* the endpoint, or lets the exception through
AfterCheck(via, result) ==
    IF via = "ip"
    THEN (IF result = "allowed" THEN "mw_next"
          ELSE IF result = "rejected" THEN "mw_log"
          ELSE "mw_fallback")
    ELSE IF via \in {"user", "both"} /\ result = "rejected" THEN "u_log"
    ELSE IF via = "both" /\ result = "allowed" THEN "q_begin"
    ELSE "idle"

\* what the client has received once check_rate_limit has returned or raised
ResponseAfterCheck(via, result) ==
    IF via = "user" /\ result = "allowed" THEN "handler"
    ELSE IF via \in {"user", "both"} /\ result = "error" THEN "500"
    ELSE "none"

\* check_rate_limit returns (or raises, result "error") to its caller
RateReturn(p, result, row, count, remaining, reset_time, store_failed) ==
    LET k == loc[p].call
        c == calls[k]
        next == AfterCheck(c.via, result)
    IN /\ calls' = [calls EXCEPT ![k] =
                       [c EXCEPT !.result = result,
                                 !.row = row,
                                 !.count = count,
                                 !.remaining = remaining,
                                 !.reset_time = reset_time,
                                 !.store_failed = store_failed,
                                 !.response = ResponseAfterCheck(c.via, result)]]
       /\ pc' = [pc EXCEPT ![p] = next]
       /\ loc' = [loc EXCEPT ![p] =
                     IF next = "idle" THEN NoLocals ELSE [NoLocals EXCEPT !.call = k]]

\* the rejection with the time of the lookup as the reset time
RejectedReset_Now(record, t) == t

\* reset time returned with a rejection
RejectedReset(record, t) == record.window_end

\* the SELECT runs; scalar_one_or_none() and the limit test follow at once
RateSelect(p) ==
    /\ pc[p] = "rl_select"
    /\ LET k == loc[p].call
           c == calls[k]
           found == ActiveWindows(c.identifier, c.identifier_type, c.now)
           one == ScalarOneOrNone(found)
           record == CHOOSE r \in found : TRUE
       IN IF one = "multiple"
          THEN \* MultipleResultsFound is raised to the caller
               RateReturn(p, "error", 0, 0, 0, 0, FALSE)
          ELSE IF one = "none"
          THEN /\ pc' = [pc EXCEPT ![p] = "rl_insert"]
               /\ UNCHANGED <<loc, calls>>
          ELSE IF LimitExceeded(record, c.limit)
          THEN RateReturn(p, "rejected", record.id, record.request_count, 0,
                          RejectedReset(record, c.now), FALSE)
          ELSE /\ loc' = [loc EXCEPT ![p].rec = record.id,
                                     ![p].cnt = IncrementedCount(record),
                                     ![p].reset = record.window_end]
               /\ pc' = [pc EXCEPT ![p] = "rl_update"]
               /\ UNCHANGED calls
    /\ UNCHANGED <<now, confVars, opsVars, rate_limits, quotaVars, uuid>>

\* record.request_count += 1; await db.commit()
RateCommitUpdate(p) ==
    /\ pc[p] = "rl_update"
    /\ LET c == calls[loc[p].call]
       IN /\ rate_limits' =
                {IF r.id = loc[p].rec
                 THEN [r EXCEPT !.request_count = loc[p].cnt]
                 ELSE r : r \in rate_limits}
          /\ RateReturn(p, "allowed", loc[p].rec, loc[p].cnt,
                        c.limit - loc[p].cnt, loc[p].reset, FALSE)
    /\ UNCHANGED <<now, confVars, opsVars, quotaVars, uuid>>

\* db.add(new_rate_limit); await db.commit()
RateCommitInsert(p) ==
    /\ pc[p] = "rl_insert"
    /\ LET c == calls[loc[p].call]
           id == uuid + 1
           row == NewRateLimit(id, c.identifier, c.identifier_type, c.now)
       IN /\ rate_limits' = rate_limits \cup {row}
          /\ uuid' = id
          /\ RateReturn(p, "allowed", id, row.request_count, c.limit - 1,
                        row.window_end, FALSE)
    /\ UNCHANGED <<now, confVars, opsVars, quotaVars>>

\* the store is unreachable: the awaited statement (the SELECT, the commit of
\* the INSERT or of the UPDATE) raises and nothing is written
RateStoreFails(p) ==
    /\ pc[p] \in {"rl_select", "rl_insert", "rl_update"}
    /\ RateReturn(p, "error", 0, 0, 0, 0, TRUE)
    /\ UNCHANGED <<now, confVars, opsVars, rate_limits, quotaVars, uuid>>

\* the row log_violation adds
NewViolation(id, identifier, identifier_type, violation_type, attempted, lim, user_id) ==
    [id |-> id,
     user_id |-> user_id,
     identifier |-> identifier,
     identifier_type |-> identifier_type,
     violation_type |-> violation_type,
     attempted_count |-> attempted,
     limit |-> lim,
     created_at |-> now]

RateStep(p) == RateSelect(p) \/ RateCommitUpdate(p) \/ RateCommitInsert(p)

\* ------------------------------------- RateLimitMiddleware.dispatch
\* client_ip = self._get_client_ip(request); check_rate_limit is called with
\* identifier_type 'ip' and limit IP_RATE_LIMIT
MwBegin(p, client_ip) == StartCall(p, client_ip, "ip", "ip")

\* await rate_limiter.log_violation(...); return JSONResponse(status_code=429)
MwLogViolation(p) ==
    /\ pc[p] = "mw_log"
    /\ LET k == loc[p].call
           c == calls[k]
           id == uuid + 1
       IN /\ violations' = violations \cup
                {NewViolation(id, c.identifier, "ip", "ip_rate", c.limit + 1, c.limit,
                              NULL)}
          /\ uuid' = id
          /\ calls' = [calls EXCEPT ![k].violation = id, ![k].response = "429"]
    /\ Finish(p)
    /\ UNCHANGED <<now, confVars, opsVars, rate_limits, quota_usage, qcalls>>

\* the commit inside log_violation raises: control passes to the except clause
MwLogFails(p) ==
    /\ pc[p] = "mw_log"
    /\ calls' = [calls EXCEPT ![loc[p].call].log_failed = TRUE]
    /\ pc' = [pc EXCEPT ![p] = "mw_fallback"]
    /\ UNCHANGED <<now, confVars, opsVars, rate_limits, quotaVars, uuid, loc>>

\* response = await call_next(request), inside the try block: the handler
\* returns its response, or raises into the except clause
MwCallNext(p) ==
    /\ pc[p] = "mw_next"
    /\ \E raised \in BOOLEAN :
        LET k == loc[p].call
        IN IF raised
           THEN /\ calls' = [calls EXCEPT ![k].handler_calls = @ + 1]
                /\ pc' = [pc EXCEPT ![p] = "mw_fallback"]
                /\ UNCHANGED loc
           ELSE /\ calls' = [calls EXCEPT ![k].handler_calls = @ + 1,
                                          ![k].response = "handler"]
                /\ Finish(p)
    /\ UNCHANGED <<now, confVars, opsVars, rate_limits, quotaVars, uuid>>

\* except Exception: return await call_next(request)
MwFallback(p) ==
    /\ pc[p] = "mw_fallback"
    /\ \E raised \in BOOLEAN :
        calls' = [calls EXCEPT
                    ![loc[p].call].handler_calls = @ + 1,
                    ![loc[p].call].response =
                        IF raised THEN "handler_error" ELSE "handler"]
    /\ Finish(p)
    /\ UNCHANGED <<now, confVars, opsVars, rate_limits, quotaVars, uuid>>

MwStep(p) ==
    \/ MwLogViolation(p)
    \/ MwLogFails(p)
    \/ MwCallNext(p)
    \/ MwFallback(p)

\* ------------------------------------------- check_user_rate_limit
\* limit = USER_RATE_LIMITS_BY_ROLE.get(current_user.role, ...); check_rate_limit
\* is called with identifier_type 'user'
UserBegin(p, user_id) == StartCall(p, user_id, "user", "user")

\* the roles of USER_RATE_LIMITS_BY_ROLE told apart here: the ordinary ones,
\* whose limit is the variable limit, and 'superadmin'
Roles == {"user", "superadmin"}

\* USER_RATE_LIMITS_BY_ROLE.get(current_user.role, ...)
RoleLimit(role) == IF role = "superadmin" THEN SuperadminLimit ELSE limit

\* check_user_rate_limit for a user with the given flag and role:
\* if current_user.is_superuser the sentinel values are stored and the
\* function returns; otherwise check_rate_limit is called with the limit of
\* the role
UserCheck(p, user_id, is_superuser, role) ==
    /\ FreeSlot(p)
    /\ Len(calls) < MaxCalls
    /\ user_id \in users
    /\ LET c == [NewCall(user_id, "user", "user") EXCEPT
                    !.role = role, !.is_superuser = is_superuser]
       IN IF is_superuser
          THEN /\ calls' = Append(calls,
                      [c EXCEPT !.limit = Unlimited,
                                !.result = "allowed",
                                !.remaining = Unlimited,
                                !.reset_time = now + window_seconds,
                                !.response = "handler"])
               /\ UNCHANGED <<pc, loc>>
          ELSE /\ calls' = Append(calls, [c EXCEPT !.limit = RoleLimit(role)])
               /\ pc' = [pc EXCEPT ![p] = "rl_select"]
               /\ loc' = [loc EXCEPT ![p] =
                             [NoLocals EXCEPT !.call = Len(calls) + 1]]
    /\ UNCHANGED <<now, confVars, opsVars, rate_limits, quotaVars, uuid>>

\* await rate_limiter.log_violation(...); raise HTTPException(status_code=429)
UserLogViolation(p) ==
    /\ pc[p] = "u_log"
    /\ LET k == loc[p].call
           c == calls[k]
           id == uuid + 1
       IN /\ violations' = violations \cup
                {NewViolation(id, c.identifier, "user", "user_rate",
                              c.limit + 1, c.limit, c.identifier)}
          /\ uuid' = id
          /\ calls' = [calls EXCEPT ![k].violation = id, ![k].response = "429"]
    /\ Finish(p)
    /\ UNCHANGED <<now, confVars, opsVars, rate_limits, quota_usage, qcalls>>

\* the commit inside log_violation raises: nothing catches it
UserLogFails(p) ==
    /\ pc[p] = "u_log"
    /\ calls' = [calls EXCEPT ![loc[p].call].log_failed = TRUE,
                              ![loc[p].call].response = "500"]
    /\ Finish(p)
    /\ UNCHANGED <<now, confVars, opsVars, rate_limits, quotaVars, uuid>>

UserStep(p) == UserLogViolation(p) \/ UserLogFails(p)

\* an administrator gives the users another role (update_user,
\* bulk_user_action): the next check reads another limit
ChangeRole(role_limit) ==
    /\ role_limit # limit
    /\ limit' = role_limit
    /\ UNCHANGED <<now, window_seconds, org_max, users, unique_index, opsVars,
                   rateVars, quotaVars, uuid, pc, loc>>

\* ------------------------------------------- check_calculation_quota
\* datetime.utcnow().strftime("%Y-%m"), as the pair (year, month)
YearMonth(t) ==
    LET months == Epoch[1] * 12 + (Epoch[2] - 1) + (t \div TicksPerMonth)
    IN <<months \div 12, (months % 12) + 1>>

\* the lookup by organization alone, whatever the month
QuotaRows_AnyMonth(organization_id, year_month) ==
    {r \in quota_usage : r.organization_id = organization_id}

\* WHERE clause of the quota lookup
QuotaRows(organization_id, year_month) ==
    {r \in quota_usage :
        /\ r.organization_id = organization_id
        /\ r.year_month = year_month}

\* the quota test off by one
QuotaExceeded_OffByOne(usage) == usage.calculation_count > usage.quota_limit

QuotaExceeded(usage) == usage.calculation_count >= usage.quota_limit

\* the new row counting the request that creates it
NewQuotaUsage_CountsFirst(id, organization_id, year_month, max_calculations) ==
    [id |-> id,
     organization_id |-> organization_id,
     year_month |-> year_month,
     calculation_count |-> 1,
     quota_limit |-> max_calculations]

\* quota_usage = OrganizationQuotaUsage(..., calculation_count=0, ...)
NewQuotaUsage(id, organization_id, year_month, max_calculations) ==
    [id |-> id,
     organization_id |-> organization_id,
     year_month |-> year_month,
     calculation_count |-> 0,
     quota_limit |-> max_calculations]

\* _get_next_month_start(): midnight on the 1st of the month after utcnow(),
\* as the pair (year, month) of the month that begins then
GetNextMonthStart(t) ==
    LET ym == YearMonth(t)
    IN IF ym[2] = 12 THEN <<ym[1] + 1, 1>> ELSE <<ym[1], ym[2] + 1>>

\* one entry of the quota history: the user and organization of a
\* check_calculation_quota call, the month it read, what it reported, and
\* the check_rate_limit call made for the same request by
\* check_user_rate_and_quota (0 when there was none)
NewQuotaCall(user_id, organization_id, rate_call, rate_bypassed) ==
    [user_id |-> user_id,
     organization_id |-> organization_id,
     year_month |-> YearMonth(now),
     result |-> "pending",
     row |-> 0,
     limit |-> 0,
     remaining |-> 0,
     reset_time |-> <<0, 0>>,
     rate_call |-> rate_call,
     rate_bypassed |-> rate_bypassed]

\* org = await db.get(Organization, ...): 400 when there is no such row;
\* current_month = utcnow().strftime(...); the SELECT is sent and the
\* coroutine suspends
StartQuota(p, user_id, org, rate_call, rate_bypassed) ==
    LET c == NewQuotaCall(user_id, org, rate_call, rate_bypassed)
    IN IF org \notin DOMAIN org_max
       THEN \* raise HTTPException(status_code=400)
            /\ qcalls' = Append(qcalls, [c EXCEPT !.result = "not_found"])
            /\ Finish(p)
       ELSE /\ qcalls' = Append(qcalls, c)
            /\ pc' = [pc EXCEPT ![p] = "q_select"]
            /\ loc' = [loc EXCEPT ![p] =
                          [NoLocals EXCEPT !.call = Len(qcalls) + 1,
                                           !.omax = org_max[org]]]

\* the exemption from the quota granted to nobody
NoOrganization_Never(organization_id) == FALSE

\* if not current_user.organization_id
NoOrganization(organization_id) == organization_id = NULL

\* request.state.quota_info = {"limit": 999999, "remaining": 999999, ...};
\* return: no statement is sent to the store
QuotaNoOrg(p, user_id, organization_id, rate_call, rate_bypassed) ==
    /\ qcalls' = Append(qcalls,
                        [NewQuotaCall(user_id, organization_id, rate_call,
                                      rate_bypassed)
                            EXCEPT !.result = "allowed",
                                   !.limit = Unlimited,
                                   !.remaining = Unlimited,
                                   !.reset_time = GetNextMonthStart(now)])
    /\ Finish(p)

\* check_calculation_quota for a user of an organization
QuotaBegin(p, org) ==
    /\ FreeSlot(p)
    /\ Len(qcalls) < MaxCalls
    /\ \E user \in users : StartQuota(p, user, org, 0, FALSE)
    /\ UNCHANGED <<now, confVars, opsVars, rateVars, quota_usage, violations, uuid>>

\* check_calculation_quota for a user with or without an organization
QuotaCheck(p, user_id, organization_id) ==
    /\ FreeSlot(p)
    /\ Len(qcalls) < MaxCalls
    /\ user_id \in users
    /\ IF NoOrganization(organization_id)
       THEN QuotaNoOrg(p, user_id, organization_id, 0, FALSE)
       ELSE StartQuota(p, user_id, organization_id, 0, FALSE)
    /\ UNCHANGED <<now, confVars, opsVars, rateVars, quota_usage, violations, uuid>>

\* ---------------------------------------- check_user_rate_and_quota
\* await check_user_rate_limit(request, current_user, db): a superuser gets
\* the sentinel values and check_calculation_quota starts at once; for any
\* other user check_rate_limit is called and the coroutine suspends
BothBegin(p, user_id, is_superuser, organization_id) ==
    /\ FreeSlot(p)
    /\ Len(calls) < MaxCalls
    /\ Len(qcalls) < MaxCalls
    /\ user_id \in users
    /\ LET c == [NewCall(user_id, "user", "both") EXCEPT
                    !.is_superuser = is_superuser,
                    !.organization_id = organization_id]
       IN IF is_superuser
          THEN /\ calls' = Append(calls,
                      [c EXCEPT !.limit = Unlimited,
                                !.result = "allowed",
                                !.remaining = Unlimited,
                                !.reset_time = now + window_seconds])
               /\ IF NoOrganization(organization_id)
                  THEN QuotaNoOrg(p, user_id, organization_id,
                                  Len(calls) + 1, TRUE)
                  ELSE StartQuota(p, user_id, organization_id,
                                  Len(calls) + 1, TRUE)
          ELSE /\ calls' = Append(calls, c)
               /\ pc' = [pc EXCEPT ![p] = "rl_select"]
               /\ loc' = [loc EXCEPT ![p] =
                             [NoLocals EXCEPT !.call = Len(calls) + 1]]
               /\ UNCHANGED qcalls
    /\ UNCHANGED <<now, confVars, opsVars, rate_limits, quota_usage,
                   violations, uuid>>

\* await check_calculation_quota(request, current_user, db), once
\* check_user_rate_limit has returned
BothQuota(p) ==
    /\ pc[p] = "q_begin"
    /\ Len(qcalls) < MaxCalls
    /\ LET k == loc[p].call
           c == calls[k]
       IN IF NoOrganization(c.organization_id)
          THEN QuotaNoOrg(p, c.identifier, c.organization_id, k, FALSE)
          ELSE StartQuota(p, c.identifier, c.organization_id, k, FALSE)
    /\ UNCHANGED <<now, confVars, opsVars, rateVars, quota_usage, violations,
                   uuid>>

\* the test of quota_usage as the session holds it: towards the violation
\* log when exceeded, towards the increment otherwise
QuotaDecide(p, usage) ==
    /\ loc' = [loc EXCEPT ![p].rec = usage.id,
                          ![p].cnt = usage.calculation_count,
                          ![p].lim = usage.quota_limit]
    /\ pc' = [pc EXCEPT ![p] = IF QuotaExceeded(usage) THEN "q_log" ELSE "q_commit"]

\* the SELECT runs; scalar_one_or_none()
QuotaSelect(p) ==
    /\ pc[p] = "q_select"
    /\ LET k == loc[p].call
           c == qcalls[k]
           found == QuotaRows(c.organization_id, c.year_month)
           one == ScalarOneOrNone(found)
       IN IF one = "multiple"
          THEN \* MultipleResultsFound is raised to the caller
               /\ qcalls' = [qcalls EXCEPT ![k].result = "error"]
               /\ Finish(p)
          ELSE IF one = "none"
          THEN /\ pc' = [pc EXCEPT ![p] = "q_insert"]
               /\ UNCHANGED <<loc, qcalls>>
          ELSE /\ QuotaDecide(p, CHOOSE r \in found : TRUE)
               /\ UNCHANGED qcalls
    /\ UNCHANGED <<now, confVars, opsVars, rateVars, quota_usage, violations, uuid>>

\* db.add(quota_usage); await db.commit()
QuotaInsert(p) ==
    /\ pc[p] = "q_insert"
    /\ LET k == loc[p].call
           c == qcalls[k]
           id == uuid + 1
       IN IF unique_index /\ QuotaRows(c.organization_id, c.year_month) # {}
          THEN \* IntegrityError is raised to the caller
               /\ qcalls' = [qcalls EXCEPT ![k].result = "error"]
               /\ Finish(p)
               /\ UNCHANGED <<quota_usage, uuid>>
          ELSE /\ quota_usage' = quota_usage \cup
                     {NewQuotaUsage(id, c.organization_id, c.year_month, loc[p].omax)}
               /\ uuid' = id
               /\ loc' = [loc EXCEPT ![p].rec = id]
               /\ pc' = [pc EXCEPT ![p] = "q_refresh"]
               /\ UNCHANGED qcalls
    /\ UNCHANGED <<now, confVars, opsVars, rateVars, violations>>

\* await db.refresh(quota_usage): the row is read again by primary key
QuotaRefresh(p) ==
    /\ pc[p] = "q_refresh"
    /\ QuotaDecide(p, CHOOSE r \in quota_usage : r.id = loc[p].rec)
    /\ UNCHANGED <<now, confVars, opsVars, rateVars, quotaVars, uuid>>

\* await rate_limiter.log_violation(...); raise HTTPException(429)
QuotaLogViolation(p) ==
    /\ pc[p] = "q_log"
    /\ LET k == loc[p].call
           c == qcalls[k]
           id == uuid + 1
       IN /\ violations' = violations \cup
                {NewViolation(id, c.organization_id, "organization", "quota",
                              loc[p].cnt + 1, loc[p].lim, c.user_id)}
          /\ uuid' = id
          /\ qcalls' = [qcalls EXCEPT ![k] =
                          [c EXCEPT !.result = "rejected",
                                    !.row = loc[p].rec,
                                    !.limit = loc[p].lim,
                                    !.remaining = 0,
                                    !.reset_time = GetNextMonthStart(now)]]
    /\ Finish(p)
    /\ UNCHANGED <<now, confVars, opsVars, rateVars, quota_usage>>

\* the commit writing the organization's current maximum over the snapshot
CommittedUsage_LimitRefreshed(r, cnt, omax) ==
    [r EXCEPT !.calculation_count = cnt + 1, !.quota_limit = omax]

\* the row as the UPDATE leaves it: calculation_count is the only dirty column
CommittedUsage(r, cnt, omax) == [r EXCEPT !.calculation_count = cnt + 1]

\* quota_usage.calculation_count += 1; await db.commit()
QuotaCommit(p) ==
    /\ pc[p] = "q_commit"
    /\ LET k == loc[p].call
       IN /\ quota_usage' =
                {IF r.id = loc[p].rec
                 THEN CommittedUsage(r, loc[p].cnt, loc[p].omax)
                 ELSE r : r \in quota_usage}
          /\ qcalls' = [qcalls EXCEPT ![k] =
                          [@ EXCEPT !.result = "allowed",
                                    !.row = loc[p].rec,
                                    !.limit = loc[p].lim,
                                    !.remaining = loc[p].lim - (loc[p].cnt + 1),
                                    !.reset_time = GetNextMonthStart(now)]]
    /\ Finish(p)
    /\ UNCHANGED <<now, confVars, opsVars, rateVars, violations, uuid>>

QuotaStep(p) ==
    \/ QuotaSelect(p)
    \/ QuotaInsert(p)
    \/ QuotaRefresh(p)
    \/ QuotaLogViolation(p)
    \/ QuotaCommit(p)

\* org.max_calculations_per_month = ...: an administrator edits the
\* organization (update_organization), or its subscription changes
\* (webhook_service.py, subscription_service.py)
UpdateOrg(org, max_calculations) ==
    /\ max_calculations # org_max[org]
    /\ org_max' = [org_max EXCEPT ![org] = max_calculations]
    /\ UNCHANGED <<now, window_seconds, limit, users, unique_index, opsVars,
                   rateVars, quotaVars, uuid, pc, loc>>

\* ------------------------------------------------ retention cleanup
\* the cutoff without the retention subtracted
Cutoff_Now(days) == now

\* cutoff_date = datetime.utcnow() - timedelta(days=days)
Cutoff(days) == now - days

\* the comparison of the DELETE including the cutoff instant itself
OlderThan_Inclusive(created_at, cutoff) == created_at <= cutoff

\* WHERE created_at < cutoff_date
OlderThan(created_at, cutoff) == created_at < cutoff

\* one entry of the cleanup history: the table swept, the clock reading and
\* the days argument of the run, and the rows before and after it
NewSweep(table, days, before, after) ==
    [table |-> table,
     now |-> now,
     days |-> days,
     before |-> before,
     after |-> after]

\* cleanup_old_records deleting the old rows of rate_limit_violations as well
CleanupOldRecords_PurgesViolations(days) ==
    /\ Len(sweeps) < MaxSweeps
    /\ LET kept == {r \in rate_limits : ~OlderThan(r.created_at, Cutoff(days))}
       IN /\ rate_limits' = kept
          /\ sweeps' = Append(sweeps, NewSweep("rate_limits", days, rate_limits, kept))
    /\ violations' = {v \in violations : ~OlderThan(v.created_at, Cutoff(days))}
    /\ UNCHANGED <<now, confVars, scheduler, quota_usage, qcalls, uuid, pc, loc,
                   calls>>

\* cleanup_old_records: delete(RateLimit).where(RateLimit.created_at < cutoff)
CleanupOldRecords(days) ==
    /\ Len(sweeps) < MaxSweeps
    /\ LET kept == {r \in rate_limits : ~OlderThan(r.created_at, Cutoff(days))}
       IN /\ rate_limits' = kept
          /\ sweeps' = Append(sweeps, NewSweep("rate_limits", days, rate_limits, kept))
    /\ UNCHANGED <<now, confVars, scheduler, quotaVars, uuid, pc, loc, calls>>

\* cleanup_old_violations deleting the rows of organization_quota_usage of
\* past months as well
CleanupOldViolations_PurgesQuota(days) ==
    /\ Len(sweeps) < MaxSweeps
    /\ LET kept == {v \in violations : ~OlderThan(v.created_at, Cutoff(days))}
       IN /\ violations' = kept
          /\ sweeps' = Append(sweeps,
                              NewSweep("rate_limit_violations", days, violations, kept))
    /\ quota_usage' = {r \in quota_usage : r.year_month = YearMonth(now)}
    /\ UNCHANGED <<now, confVars, scheduler, rateVars, qcalls, uuid, pc, loc>>

\* cleanup_old_violations:
\* delete(RateLimitViolation).where(RateLimitViolation.created_at < cutoff)
CleanupOldViolations(days) ==
    /\ Len(sweeps) < MaxSweeps
    /\ LET kept == {v \in violations : ~OlderThan(v.created_at, Cutoff(days))}
       IN /\ violations' = kept
          /\ sweeps' = Append(sweeps,
                              NewSweep("rate_limit_violations", days, violations, kept))
    /\ UNCHANGED <<now, confVars, scheduler, rateVars, quota_usage, qcalls,
                   uuid, pc, loc>>

\* ------------------------------------------------- admin: delete_user
\* delete_user with hard_delete: await db.delete(user); await db.commit().
\* rate_limit_violations.user_id is declared ForeignKey('users.id',
\* ondelete='SET NULL'): a database enforcing foreign keys (PostgreSQL) sets
\* the column to NULL in the rows of the user; SQLite, the default
\* DATABASE_URL, does not enforce them unless told to and leaves the rows.
HardDeleteUser(user_id, foreign_keys) ==
    /\ user_id \in users
    /\ users' = users \ {user_id}
    /\ violations' =
          IF foreign_keys
          THEN {IF v.user_id = user_id THEN [v EXCEPT !.user_id = NULL] ELSE v :
                   v \in violations}
          ELSE violations
    /\ UNCHANGED <<now, window_seconds, limit, org_max, unique_index, opsVars,
                   rateVars, quota_usage, qcalls, uuid, pc, loc>>

\* ---------------------------------------------------------- scheduler
\* start_scheduler: register_jobs(); scheduler.start()
StartScheduler ==
    /\ ~scheduler.running
    /\ scheduler' = [scheduler EXCEPT !.running = TRUE]
    /\ UNCHANGED <<now, confVars, sweeps, rateVars, quotaVars, uuid, pc, loc>>

\* the trigger of a registered job fires, again and again while the scheduler
\* runs; the four jobs (check_tariff_changes, send_daily_digests,
\* send_weekly_digests, check_external_sources) leave the three tables of
\* this model alone
RunJob(job) ==
    /\ scheduler.running
    /\ scheduler' = [scheduler EXCEPT !.runs[job] = (@ + 1) % 2]
    /\ UNCHANGED <<now, confVars, sweeps, rateVars, quotaVars, uuid, pc, loc>>

\* ---------------------------------------------------------------- system
Idle == \A p \in Procs : pc[p] = "idle"

Init ==
    /\ now = 0
    /\ window_seconds \in 1..MaxWindow
    /\ limit \in 0..MaxLimit
    /\ rate_limits = {}
    /\ quota_usage = {}
    /\ violations = {}
    /\ org_max \in [Orgs -> 0..MaxQuota]
    /\ users = Users
    /\ unique_index \in BOOLEAN
    /\ uuid = 0
    /\ pc = [p \in Procs |-> "idle"]
    /\ loc = [p \in Procs |-> NoLocals]
    /\ calls = <<>>
    /\ qcalls = <<>>
    /\ sweeps = <<>>
    /\ scheduler = [running |-> FALSE, runs |-> [j \in Jobs |-> 0]]

\* The rate limiter alone: organizations play no part.
InitRate ==
    /\ Init
    /\ org_max = [o \in Orgs |-> 0]
    /\ unique_index = TRUE

\* Concurrent check_rate_limit calls
NextRate ==
    \/ Tick
    \/ \E p \in Procs, key \in RateKeys : RateBegin(p, key[1], key[2])
    \/ \E p \in Procs : RateStep(p)

Spec == InitRate /\ [][NextRate]_vars

\* check_rate_limit called sequentially: a call starts when none is in flight
NextRateSeq ==
    \/ Tick
    \/ \E p \in Procs, key \in RateKeys : Idle /\ RateBegin(p, key[1], key[2])
    \/ \E p \in Procs : RateStep(p)

SpecSeq == InitRate /\ [][NextRateSeq]_vars

\* The quota tracker alone: the rate-limit configuration plays no part.
InitQuota ==
    /\ Init
    /\ window_seconds = 1
    /\ limit = 1

\* Concurrent check_calculation_quota calls
NextQuota ==
    \/ Tick
    \/ \E p \in Procs, org \in Orgs : QuotaBegin(p, org)
    \/ \E p \in Procs : QuotaStep(p)

SpecQuota == InitQuota /\ [][NextQuota]_vars

\* check_calculation_quota called sequentially
NextQuotaSeq ==
    \/ Tick
    \/ \E p \in Procs, org \in Orgs : Idle /\ QuotaBegin(p, org)
    \/ \E p \in Procs : QuotaStep(p)

SpecQuotaSeq == InitQuota /\ [][NextQuotaSeq]_vars

\* check_calculation_quota called sequentially by users with and without an
\* organization
NextNoOrg ==
    \/ Tick
    \/ \E p \in Procs, user \in Users, org \in Orgs \cup {NULL} :
          Idle /\ QuotaCheck(p, user, org)
    \/ \E p \in Procs : QuotaStep(p)

SpecNoOrg == InitQuota /\ [][NextNoOrg]_vars

\* Requests through RateLimitMiddleware, one at a time, with a store that may
\* fail at any statement and a handler that may raise.
NextMw ==
    \/ Tick
    \/ \E p \in Procs, ip \in Ips : Idle /\ MwBegin(p, ip)
    \/ \E p \in Procs : RateStep(p)
    \/ \E p \in Procs : RateStoreFails(p)
    \/ \E p \in Procs : MwStep(p)

SpecMw == InitRate /\ [][NextMw]_vars

\* The users' roles carry a positive limit (rate_limit_config.py:23-28).
InitUser ==
    /\ InitRate
    /\ limit >= 1

\* Requests through check_user_rate_limit, one at a time, with a store that
\* may fail at any statement, while administrators change roles.
NextUser ==
    \/ Tick
    \/ \E p \in Procs, user \in Users : Idle /\ UserBegin(p, user)
    \/ \E p \in Procs : RateStep(p)
    \/ \E p \in Procs : RateStoreFails(p)
    \/ \E p \in Procs : UserStep(p)
    \/ \E role_limit \in 1..MaxLimit : ChangeRole(role_limit)

SpecUser == InitUser /\ [][NextUser]_vars

\* Requests through check_user_rate_limit, one at a time, by users with and
\* without the superuser flag and of either role
NextSuper ==
    \/ Tick
    \/ \E p \in Procs, user \in Users, su \in BOOLEAN, role \in Roles :
          Idle /\ UserCheck(p, user, su, role)
    \/ \E p \in Procs : RateStep(p)
    \/ \E p \in Procs : UserLogViolation(p)

SpecSuper == InitUser /\ [][NextSuper]_vars

\* Requests to an endpoint depending on check_user_rate_and_quota, one at a
\* time, by users with and without the superuser flag, with and without an
\* organization
InitBoth ==
    /\ Init
    /\ limit >= 1
    /\ unique_index = TRUE
    /\ org_max["org2"] = 0

NextBoth ==
    \/ Tick
    \/ \E p \in Procs, user \in Users, su \in BOOLEAN,
          org \in {"org1", NULL} : Idle /\ BothBegin(p, user, su, org)
    \/ \E p \in Procs : RateStep(p)
    \/ \E p \in Procs : UserLogViolation(p)
    \/ \E p \in Procs : BothQuota(p)
    \/ \E p \in Procs : QuotaStep(p)

SpecBoth == InitBoth /\ [][NextBoth]_vars

\* Requests to an endpoint depending on check_user_rate_and_quota, one at a
\* time, with runs of the two cleanup functions in between
InitPurge ==
    /\ InitBoth
    /\ limit = MaxLimit
    /\ window_seconds = 1

NextPurge ==
    \/ Tick
    \/ \E p \in Procs, user \in Users :
          Idle /\ BothBegin(p, user, FALSE, "org1")
    \/ \E p \in Procs : RateStep(p)
    \/ \E p \in Procs : UserLogViolation(p)
    \/ \E p \in Procs : BothQuota(p)
    \/ \E p \in Procs : QuotaStep(p)
    \/ \E days \in 0..MaxDays : Idle /\ CleanupOldRecords(days)
    \/ \E days \in 0..MaxDays : Idle /\ CleanupOldViolations(days)

SpecPurge == InitPurge /\ [][NextPurge]_vars

\* Requests through check_user_rate_limit, one at a time, with runs of the
\* two cleanup functions and the hard delete of users in between
NextRetain ==
    \/ Tick
    \/ \E p \in Procs, user \in Users : Idle /\ UserCheck(p, user, FALSE, "user")
    \/ \E p \in Procs : RateStep(p)
    \/ \E p \in Procs : UserLogViolation(p)
    \/ \E days \in 0..MaxDays : Idle /\ CleanupOldRecords(days)
    \/ \E days \in 0..MaxDays : Idle /\ CleanupOldViolations(days)
    \/ \E user \in Users, foreign_keys \in BOOLEAN :
          Idle /\ HardDeleteUser(user, foreign_keys)

SpecRetain == InitUser /\ [][NextRetain]_vars

\* check_calculation_quota called sequentially while the organizations'
\* maximum is edited
NextPlan ==
    \/ Tick
    \/ \E p \in Procs, org \in Orgs : Idle /\ QuotaBegin(p, org)
    \/ \E p \in Procs : QuotaStep(p)
    \/ \E org \in Orgs, m \in 0..MaxQuota : UpdateOrg(org, m)

SpecPlan == InitQuota /\ [][NextPlan]_vars

\* Requests through check_user_rate_limit with a working store, and the two
\* cleanup functions invoked between requests.
NextSweep ==
    \/ Tick
    \/ \E p \in Procs, user \in Users : Idle /\ UserBegin(p, user)
    \/ \E p \in Procs : RateStep(p)
    \/ \E p \in Procs : UserLogViolation(p)
    \/ \E days \in 0..MaxDays : Idle /\ CleanupOldRecords(days)
    \/ \E days \in 0..MaxDays : Idle /\ CleanupOldViolations(days)

SpecSweep == InitUser /\ [][NextSweep]_vars

\* The running application: requests through check_user_rate_limit and the
\* scheduler with the jobs register_jobs gives it. Every step that can be
\* taken is eventually taken.
NextApp ==
    \/ Tick
    \/ \E p \in Procs, user \in Users : Idle /\ UserBegin(p, user)
    \/ \E p \in Procs : RateStep(p)
    \/ \E p \in Procs : UserLogViolation(p)
    \/ StartScheduler
    \/ \E job \in Jobs : RunJob(job)

SpecApp ==
    /\ InitUser
    /\ [][NextApp]_vars
    /\ WF_vars(Tick)
    /\ WF_vars(StartScheduler)
    /\ \A p \in Procs : WF_vars(RateStep(p) \/ UserLogViolation(p))
    /\ \A job \in Jobs : WF_vars(RunJob(job))

\* ------------------------------------------------ properties: rate limiter
Admitted(k) == calls[k].result = "allowed"
Finished(k) == calls[k].result # "pending"

SameKey(k, r) ==
    /\ calls[k].identifier = r.identifier
    /\ calls[k].identifier_type = r.identifier_type

\* call k arrived inside the time interval of window r of its own key
InWindow(k, r) ==
    /\ SameKey(k, r)
    /\ r.window_start <= calls[k].now
    /\ calls[k].now < r.window_end

\* position of call k among the calls that arrived inside window r
Rank(k, r) == Cardinality({j \in 1..k : InWindow(j, r)})

AdmittedAgainst(r) == {k \in DOMAIN calls : Admitted(k) /\ calls[k].row = r.id}

\* C2: with a limit of at least 1, the requests admitted for one
\* (identifier, kind) inside the interval of one window never outnumber
\* the limit, whatever the interleaving of the calls.
C2_AdmitsWithinLimit ==
    limit >= 1 =>
        \A r \in rate_limits :
            Cardinality({k \in DOMAIN calls : Admitted(k) /\ InWindow(k, r)}) <= limit

\* C3 as stated (every limit): of the calls made one after the other inside
\* one window, exactly the first `limit` are admitted and the later ones
\* are rejected.
C3_FirstLimitAdmitted ==
    \A r \in rate_limits : \A k \in DOMAIN calls :
        (InWindow(k, r) /\ Finished(k)) =>
            /\ Rank(k, r) <= limit => calls[k].result = "allowed"
            /\ Rank(k, r) > limit => calls[k].result = "rejected"

\* C3 amended: the same for every limit of at least 1.
C3_FirstLimitAdmittedPositive == limit >= 1 => C3_FirstLimitAdmitted

C3_Witness ==
    /\ limit >= 1
    /\ \E r \in rate_limits : \E k \in DOMAIN calls :
           /\ InWindow(k, r)
           /\ Rank(k, r) = limit + 1
           /\ calls[k].result = "rejected"
           /\ \A j \in 1..(k - 1) : InWindow(j, r) => Admitted(j)

\* C5: each (identifier, kind) has at most one window with window_end > now.
C5_OneActiveWindow ==
    \A r1, r2 \in rate_limits :
        (/\ r1.identifier = r2.identifier
         /\ r1.identifier_type = r2.identifier_type
         /\ r1.window_end > now
         /\ r2.window_end > now) => r1 = r2

\* C6: the stored count of every window is the number of requests admitted
\* against it.
C6_NoLostIncrement ==
    \A r \in rate_limits : r.request_count = Cardinality(AdmittedAgainst(r))

\* the windows of call k's key that existed when call k arrived (calls made
\* one after the other: every row is the row of the call that created it)
PriorRows(k) ==
    {r \in rate_limits :
        SameKey(k, r) /\ \E j \in 1..(k - 1) : calls[j].row = r.id}

\* C9: a call that arrives when every window of its key has ended
\* (window_end <= t, equality included) is admitted and counted against a
\* fresh window with count 1, window_start = t and
\* window_end = t + window_seconds; the earlier windows keep their counts.
C9_FreshWindowAfterEnd ==
    LET k == Len(calls)
    IN (/\ k >= 1
        /\ Finished(k)
        /\ PriorRows(k) # {}
        /\ \A r \in PriorRows(k) : r.window_end <= calls[k].now) =>
           /\ calls[k].result = "allowed"
           /\ \E r \in rate_limits \ PriorRows(k) :
                 /\ r.id = calls[k].row
                 /\ SameKey(k, r)
                 /\ r.request_count = 1
                 /\ r.window_start = calls[k].now
                 /\ r.window_end = calls[k].now + window_seconds
           /\ \A r \in PriorRows(k) :
                 r.request_count =
                     Cardinality({j \in 1..(k - 1) : Admitted(j) /\ calls[j].row = r.id})

\* the call arrived exactly at the end of an exhausted window
C9_Witness ==
    LET k == Len(calls)
    IN /\ k >= 1
       /\ calls[k].result = "allowed"
       /\ PriorRows(k) # {}
       /\ \A r \in PriorRows(k) : r.window_end <= calls[k].now
       /\ \E r \in PriorRows(k) :
             r.window_end = calls[k].now /\ r.request_count >= limit

\* --------------------------------------- properties: enforcement boundary
\* call k has not yet reached the response its request ends with
InFlight(k) == \E p \in Procs : pc[p] # "idle" /\ loc[p].call = k

\* row r is an active window of call k's identifier at the call's clock reading
ActiveFor(k, r) ==
    /\ SameKey(k, r)
    /\ r.window_start >= calls[k].now - window_seconds
    /\ r.window_end > calls[k].now

\* C11: a check_rate_limit call that finds an active window whose count has
\* reached the limit returns allowed = false, remaining = 0 and the window's
\* window_end as reset time, and leaves the rate_limits table as it was.
C11_RejectionWhenWindowFull ==
    [][\A k \in DOMAIN calls : \A r \in rate_limits :
          (/\ calls[k].result = "pending"
           /\ calls'[k].result # "pending"
           /\ ActiveFor(k, r)
           /\ r.request_count >= calls[k].limit)
          => (/\ calls'[k].result = "rejected"
              /\ calls'[k].remaining = 0
              /\ calls'[k].reset_time = r.window_end
              /\ rate_limits' = rate_limits)]_vars

C11_Witness ==
    \E k \in DOMAIN calls : \E r \in rate_limits :
        /\ calls[k].result = "rejected"
        /\ calls[k].row = r.id
        /\ calls[k].remaining = 0
        /\ calls[k].reset_time = r.window_end
        /\ r.request_count >= calls[k].limit

\* C12: when a store operation of the rate check fails inside
\* RateLimitMiddleware.dispatch, the request is passed to the downstream
\* handler and the client receives the handler's outcome: no 429, no error
\* of the limiter, no violation logged.
C12_IpFailOpen ==
    \A k \in DOMAIN calls :
        (calls[k].via = "ip" /\ calls[k].store_failed)
        => (/\ calls[k].violation = 0
            /\ calls[k].response \notin {"429", "500"}
            /\ ~InFlight(k) =>
                  (/\ calls[k].response \in {"handler", "handler_error"}
                   /\ calls[k].handler_calls >= 1))

C12_Witness ==
    \E k \in DOMAIN calls :
        /\ calls[k].via = "ip"
        /\ calls[k].store_failed
        /\ ~InFlight(k)
        /\ calls[k].response = "handler"
        /\ calls[k].handler_calls = 1

\* C13: when a store operation fails during check_user_rate_limit, the
\* request is admitted and reaches the endpoint.
C13_UserFailOpen ==
    \A k \in DOMAIN calls :
        (calls[k].via = "user" /\ calls[k].store_failed /\ ~InFlight(k))
        => calls[k].response = "handler"

\* C14: with the store available, every check_calculation_quota call ends in
\* an admit or in a rejection, never in an exception raised to the client.
C14_NoUnhandledException ==
    \A k \in DOMAIN qcalls : qcalls[k].result # "error"

\* C15: a request rejected with 429 has added exactly one violation row,
\* whose limit is the limit of the decision and whose attempted_count is the
\* window's counter at the rejection plus one; an admitted request adds none.
C15_ViolationMatchesRejection ==
    /\ \A k \in DOMAIN calls :
          calls[k].response = "429"
          => \E v \in violations :
                /\ v.id = calls[k].violation
                /\ v.identifier = calls[k].identifier
                /\ v.limit = calls[k].limit
                /\ v.attempted_count = calls[k].count + 1
    /\ \A k \in DOMAIN calls :
          calls[k].result = "allowed" => calls[k].violation = 0
    /\ Cardinality(violations) =
          Cardinality({k \in DOMAIN calls : calls[k].response = "429"})

\* C16: when the write of the violation row fails while a request is being
\* rejected, the client still receives the 429.
C16_RejectionSurvivesLogFailure ==
    \A k \in DOMAIN calls :
        (calls[k].log_failed /\ ~InFlight(k)) => calls[k].response = "429"

\* ------------------------------------------- properties: plan changes
\* C17: the quota_limit of an organization_quota_usage row never changes, and
\* a call is admitted exactly when the row's calculation_count is below that
\* quota_limit, whatever Organization.max_calculations_per_month has become.
C17_LimitIsSnapshot ==
    [][/\ \A r \in quota_usage : \E r2 \in quota_usage' :
             r2.id = r.id /\ r2.quota_limit = r.quota_limit
       /\ \A k \in DOMAIN qcalls :
             (/\ qcalls[k].result = "pending"
              /\ qcalls'[k].result \in {"allowed", "rejected"})
             => \E r \in quota_usage :
                   /\ r.id = qcalls'[k].row
                   /\ qcalls'[k].result = "allowed"
                        <=> r.calculation_count < r.quota_limit]_vars

C17_Witness ==
    \E k \in DOMAIN qcalls : \E r \in quota_usage :
        /\ qcalls[k].result = "rejected"
        /\ r.id = qcalls[k].row
        /\ r.calculation_count >= r.quota_limit
        /\ r.calculation_count < org_max[qcalls[k].organization_id]

\* ------------------------------------------- properties: retention cleanup
\* runs i and i + 1 sweep the same table and nothing was written to it between
Successive(i, j) ==
    /\ j = i + 1
    /\ sweeps[i].table = sweeps[j].table
    /\ sweeps[j].before = sweeps[i].after

\* C18: of two cleanup runs in succession with nothing written between them,
\* the second deletes no row.
C18_SecondRunDeletesNothing ==
    \A i, j \in DOMAIN sweeps :
        Successive(i, j) => sweeps[j].after = sweeps[j].before

\* C18 (amended): of two cleanup runs in succession with nothing written
\* between them, the second deletes exactly the rows whose created_at lies
\* from the first run's cutoff up to, not including, its own; it deletes no
\* row when its cutoff is not later than the first run's.
C18_SecondRunDeletesBetweenCutoffs ==
    \A i, j \in DOMAIN sweeps :
        Successive(i, j)
        => /\ sweeps[j].before \ sweeps[j].after =
                {r \in sweeps[i].after :
                    /\ r.created_at >= sweeps[i].now - sweeps[i].days
                    /\ r.created_at < sweeps[j].now - sweeps[j].days}
           /\ (sweeps[j].now - sweeps[j].days <= sweeps[i].now - sweeps[i].days)
                => sweeps[j].after = sweeps[j].before

C18_Witness ==
    \E i, j \in DOMAIN sweeps :
        /\ Successive(i, j)
        /\ sweeps[i].after # sweeps[i].before
        /\ sweeps[i].after # {}
        /\ sweeps[j].now - sweeps[j].days = sweeps[i].now - sweeps[i].days
        /\ sweeps[j].after = sweeps[j].before

\* C19: a cleanup run deletes exactly the rate_limits rows whose window_end is
\* older than now - days and the violation rows whose created_at is older
\* than now - days.
C19_DeletesByWindowEnd ==
    \A i \in DOMAIN sweeps :
        sweeps[i].after =
            {r \in sweeps[i].before :
                IF sweeps[i].table = "rate_limits"
                THEN ~(r.window_end < sweeps[i].now - sweeps[i].days)
                ELSE ~(r.created_at < sweeps[i].now - sweeps[i].days)}

\* C19 (amended): a cleanup run deletes exactly the rows of its table, windows
\* and violations alike, whose created_at is older than now - days.
C19_DeletesByCreatedAt ==
    \A i \in DOMAIN sweeps :
        sweeps[i].after =
            {r \in sweeps[i].before : r.created_at >= sweeps[i].now - sweeps[i].days}

C19_Witness ==
    \E i \in DOMAIN sweeps : \E r \in sweeps[i].before \ sweeps[i].after :
        /\ sweeps[i].table = "rate_limits"
        /\ r.created_at < sweeps[i].now - sweeps[i].days
        /\ r.window_end >= sweeps[i].now - sweeps[i].days
        /\ sweeps[i].after # {}

\* C20: in the running application every rate_limits row older than the
\* retention is eventually deleted.
C20_OldRowsEventuallyDeleted ==
    (\E r \in rate_limits : r.created_at < now - MaxDays)
        ~> (\A r \in rate_limits : r.created_at >= now - MaxDays)

\* ------------------------------------------- properties: further claims
\* C25: for a request through RateLimitMiddleware.dispatch the downstream
\* handler is invoked at most once, also when the handler raises.
C25_HandlerCalledOnce ==
    \A k \in DOMAIN calls :
        calls[k].via = "ip" => calls[k].handler_calls <= 1

\* C26: every organization_quota_usage row has
\* 0 <= calculation_count <= quota_limit, under any interleaving of
\* check_calculation_quota calls.
C26_UsedWithinLimit ==
    \A r \in quota_usage :
        /\ 0 <= r.calculation_count
        /\ r.calculation_count <= r.quota_limit

\* a period filled to its limit by interleaved calls, with a call rejected
C26_Witness ==
    \E r \in quota_usage : \E k \in DOMAIN qcalls :
        /\ r.quota_limit >= 1
        /\ r.calculation_count = r.quota_limit
        /\ qcalls[k].result = "rejected"
        /\ qcalls[k].row = r.id

\* C27: cleanup_old_records never deletes a window that is still active
\* (window_end > now) at the time of the run.
C27_ActiveWindowsSurvive ==
    \A i \in DOMAIN sweeps :
        sweeps[i].table = "rate_limits"
        => \A r \in sweeps[i].before \ sweeps[i].after :
              ~(r.window_end > sweeps[i].now)

\* the rows of call k's own (identifier, identifier_type) that are active at
\* the call's clock reading
OwnActive(k) == {r \in rate_limits : ActiveFor(k, r)}

\* C29: a check_rate_limit call writes only the window of its own
\* (identifier, identifier_type), and its result is determined by the rows of
\* that pair alone: rows of other identifiers, or of the same identifier
\* under the other type, play no part.
C29_KeysDoNotInterfere ==
    [][/\ \A r \in rate_limits' :
             r \notin rate_limits
             => \E k \in DOMAIN calls :
                   /\ calls[k].result = "pending"
                   /\ calls'[k].result = "allowed"
                   /\ calls'[k].row = r.id
                   /\ r.identifier = calls[k].identifier
                   /\ r.identifier_type = calls[k].identifier_type
       /\ \A r \in rate_limits :
             r \notin rate_limits'
             => \E k \in DOMAIN calls :
                   /\ calls[k].result = "pending"
                   /\ calls'[k].result = "allowed"
                   /\ calls'[k].row = r.id
                   /\ r.identifier = calls[k].identifier
                   /\ r.identifier_type = calls[k].identifier_type
       /\ \A k \in DOMAIN calls :
             (calls[k].result = "pending" /\ calls'[k].result # "pending")
             => IF OwnActive(k) = {}
                THEN /\ calls'[k].result = "allowed"
                     /\ calls'[k].remaining = calls[k].limit - 1
                     /\ calls'[k].reset_time = calls[k].now + window_seconds
                ELSE \E r \in OwnActive(k) :
                        /\ calls'[k].row = r.id
                        /\ calls'[k].reset_time = r.window_end
                        /\ IF r.request_count >= calls[k].limit
                           THEN /\ calls'[k].result = "rejected"
                                /\ calls'[k].remaining = 0
                           ELSE /\ calls'[k].result = "allowed"
                                /\ calls'[k].remaining =
                                      calls[k].limit - (r.request_count + 1)]_vars

\* the same identifier string under both types, one rejected at its full
\* window, the other admitted into a window of its own
C29_Witness ==
    \E j, k \in DOMAIN calls :
        /\ j < k
        /\ calls[j].identifier = calls[k].identifier
        /\ calls[j].identifier_type # calls[k].identifier_type
        /\ calls[j].now = calls[k].now
        /\ calls[j].result = "rejected"
        /\ calls[k].result = "allowed"
        /\ calls[k].row # calls[j].row

\* the month following year_month ym
MonthAfter(ym) == IF ym[2] = 12 THEN <<ym[1] + 1, 1>> ELSE <<ym[1], ym[2] + 1>>

\* C24: a check_calculation_quota call of a user with no organization is
\* admitted at once, reports limit and remaining 999999, and leaves the
\* quota and violation tables as they were; no row is ever stored for it.
C24_NoOrgExempt ==
    [][/\ \A k \in DOMAIN qcalls' :
             qcalls'[k].organization_id = NULL
             => /\ qcalls'[k].result = "allowed"
                /\ qcalls'[k].limit = 999999
                /\ qcalls'[k].remaining = 999999
                /\ qcalls'[k].row = 0
                /\ k \notin DOMAIN qcalls
                     => (quota_usage' = quota_usage /\ violations' = violations)
       /\ \A r \in quota_usage' : r.organization_id # NULL
       /\ \A v \in violations' : v.identifier # NULL]_vars

\* users without an organization admitted after an organization's period has
\* been exhausted
C24_Witness ==
    \E j, k \in DOMAIN qcalls :
        /\ j < k
        /\ qcalls[j].result = "rejected"
        /\ qcalls[k].organization_id = NULL
        /\ qcalls[k].result = "allowed"
        /\ qcalls[k].remaining = 999999

\* C28: the reset time reported with a quota rejection is the first instant
\* of the month following the year_month the decision was made against.
C28_ResetIsNextMonth ==
    \A k \in DOMAIN qcalls :
        qcalls[k].result = "rejected"
        => qcalls[k].reset_time = MonthAfter(qcalls[k].year_month)

\* ----------------------------------------------- properties: quota tracker
QAdmitted(k) == qcalls[k].result = "allowed"
QFinished(k) == qcalls[k].result # "pending"

\* call k was made for the organization and period key of row r
InPeriod(k, r) ==
    /\ qcalls[k].organization_id = r.organization_id
    /\ qcalls[k].year_month = r.year_month

SamePeriod(j, k) ==
    /\ qcalls[j].organization_id = qcalls[k].organization_id
    /\ qcalls[j].year_month = qcalls[k].year_month

\* position of call k among the calls of its period
QRank(k, r) == Cardinality({j \in 1..k : InPeriod(j, r)})

AdmittedInPeriod(r) == {k \in DOMAIN qcalls : QAdmitted(k) /\ InPeriod(k, r)}

\* C1: the metered calls admitted for one (organization, period key) never
\* outnumber the limit of the period, whatever the interleaving.
C1_AdmitsWithinQuota ==
    \A r \in quota_usage : Cardinality(AdmittedInPeriod(r)) <= r.quota_limit

\* C4: of the calls made one after the other in one period, exactly the
\* first `limit` are admitted and every later one is rejected; used is the
\* number of admitted calls, so an admit raises it by 1 and a reject leaves it.
C4_QuotaSequential ==
    \A r \in quota_usage :
        /\ r.calculation_count = Cardinality(AdmittedInPeriod(r))
        /\ \A k \in DOMAIN qcalls :
              (InPeriod(k, r) /\ QFinished(k)) =>
                  /\ QRank(k, r) <= r.quota_limit => qcalls[k].result = "allowed"
                  /\ QRank(k, r) > r.quota_limit => qcalls[k].result = "rejected"

\* a period admitted its whole limit and then rejected two calls
C4_Witness ==
    \E r \in quota_usage :
        /\ r.quota_limit >= 1
        /\ r.calculation_count = r.quota_limit
        /\ Cardinality({k \in DOMAIN qcalls :
                           InPeriod(k, r) /\ qcalls[k].result = "rejected"}) >= 2

\* C7: exactly one row for every (organization, period key) that was used.
C7_OneRowPerPeriod ==
    /\ \A r1, r2 \in quota_usage :
          (/\ r1.organization_id = r2.organization_id
           /\ r1.year_month = r2.year_month) => r1 = r2
    /\ \A k \in DOMAIN qcalls :
          qcalls[k].result \in {"allowed", "rejected"} =>
              \E r \in quota_usage : InPeriod(k, r)

\* C8: no step lowers the used count of a row.
C8_UsedNeverDecreases ==
    [][\A r \in quota_usage : \A r2 \in quota_usage' :
          r2.id = r.id => r2.calculation_count >= r.calculation_count]_vars

\* C10: the first call of an organization under a new period key is decided
\* against a row created by that call with used = 0 and the organization's
\* limit, whatever the rows of earlier periods hold; those rows keep their
\* counts.
C10_RolloverFreshPeriod ==
    LET k == Len(qcalls)
    IN (/\ k >= 1
        /\ QFinished(k)
        /\ \A j \in 1..(k - 1) : ~SamePeriod(j, k)) =>
           /\ \E r \in quota_usage :
                 /\ {q \in quota_usage : InPeriod(k, q)} = {r}
                 /\ r.id = qcalls[k].row
                 /\ \A j \in 1..(k - 1) : qcalls[j].row # r.id
                 /\ r.quota_limit = org_max[qcalls[k].organization_id]
                 /\ QAdmitted(k) <=> 0 < r.quota_limit
                 /\ ~QAdmitted(k) <=> qcalls[k].result = "rejected"
                 /\ r.calculation_count = IF QAdmitted(k) THEN 1 ELSE 0
           /\ \A r \in quota_usage :
                 ~InPeriod(k, r) =>
                     r.calculation_count =
                         Cardinality({j \in 1..(k - 1) : QAdmitted(j) /\ InPeriod(j, r)})

\* the earlier period of the organization was exhausted and the first call
\* of the new period is admitted
C10_Witness ==
    LET k == Len(qcalls)
    IN /\ k >= 2
       /\ QAdmitted(k)
       /\ \A j \in 1..(k - 1) : ~SamePeriod(j, k)
       /\ \E r \in quota_usage :
             /\ r.organization_id = qcalls[k].organization_id
             /\ r.year_month # qcalls[k].year_month
             /\ r.quota_limit >= 1
             /\ r.calculation_count >= r.quota_limit

\* C23: for a user who is a superuser or whose role is 'superadmin',
\* check_user_rate_limit never rejects, touches no window and reports the
\* remaining value 999999.
C23_SuperBypass ==
    \A k \in 1..Len(calls) :
        (/\ calls[k].via = "user"
         /\ calls[k].is_superuser \/ calls[k].role = "superadmin"
         /\ Finished(k))
        => /\ calls[k].result = "allowed"
           /\ calls[k].row = 0
           /\ calls[k].remaining = 999999

\* the quota check j was made by check_user_rate_and_quota
ViaBoth(j) == qcalls[j].rate_call # 0

\* the request of rate check k was counted in a window of its user
Counted(k) ==
    /\ calls[k].result = "allowed"
    /\ calls[k].row # 0
    /\ calls[k].count >= 1

\* C30 as stated: in check_user_rate_and_quota every quota check follows a
\* completed and admitting rate check, and a request rejected by the quota has
\* been counted in a window of its user.
C30_RejectedByQuotaWasCounted ==
    \A j \in 1..Len(qcalls) :
        ViaBoth(j) =>
            /\ calls[qcalls[j].rate_call].result = "allowed"
            /\ qcalls[j].result = "rejected" => Counted(qcalls[j].rate_call)

\* C30: in check_user_rate_and_quota the quota check starts only after the
\* rate check has returned and admitted the request, so a request rejected by
\* the rate limit has no quota check and touches no quota row; a request that
\* reaches the quota check has been counted in a window of its user unless
\* the user is a superuser, who is counted in no window.
C30_RateBeforeQuota ==
    /\ \A j \in 1..Len(qcalls) :
          ViaBoth(j) =>
              /\ calls[qcalls[j].rate_call].result = "allowed"
              /\ calls[qcalls[j].rate_call].identifier = qcalls[j].user_id
              /\ qcalls[j].rate_bypassed = calls[qcalls[j].rate_call].is_superuser
              /\ IF qcalls[j].rate_bypassed
                 THEN calls[qcalls[j].rate_call].row = 0
                 ELSE Counted(qcalls[j].rate_call)
    /\ \A k \in 1..Len(calls) :
          (calls[k].via = "both" /\ calls[k].result # "allowed") =>
              \A j \in 1..Len(qcalls) : qcalls[j].rate_call # k
    /\ \A r \in quota_usage :
          \E j \in 1..Len(qcalls) :
              /\ ViaBoth(j)
              /\ qcalls[j].organization_id = r.organization_id
              /\ qcalls[j].year_month = r.year_month

\* a request rejected by the rate limit beside one rejected by the quota after
\* it was counted
C30_Witness ==
    /\ \E k \in 1..Len(calls) :
          /\ calls[k].via = "both"
          /\ calls[k].result = "rejected"
          /\ calls[k].response = "429"
    /\ \E j \in 1..Len(qcalls) :
          /\ ViaBoth(j)
          /\ qcalls[j].result = "rejected"
          /\ ~qcalls[j].rate_bypassed
          /\ Counted(qcalls[j].rate_call)

\* the step is a run of a cleanup function on the given table
SweepOf(table) ==
    /\ Len(sweeps') = Len(sweeps) + 1
    /\ sweeps'[Len(sweeps')].table = table

\* C21: neither cleanup_old_records nor cleanup_old_violations deletes or
\* changes a row of organization_quota_usage, rows of past months included.
C21_SweepsLeaveQuota == [][sweeps' # sweeps => quota_usage' = quota_usage]_vars

\* both cleanup functions have deleted rows, the second in a month after the
\* one of a quota row that is still there
C21_Witness ==
    /\ Len(sweeps) = 2
    /\ sweeps[1].table # sweeps[2].table
    /\ \A i \in 1..2 : sweeps[i].before # sweeps[i].after
    /\ \E r \in quota_usage :
          /\ r.year_month # YearMonth(sweeps[2].now)
          /\ r.calculation_count >= 1

\* rows of rate_limit_violations appear only as log_violation writes them
ViolationsOnlyLogged ==
    \A w \in violations' :
        (\A v \in violations : v.id # w.id) =>
            /\ w.id = uuid'
            /\ w.created_at = now
            /\ \E p \in Procs : pc[p] \in {"u_log", "mw_log", "q_log"}

\* rows of rate_limit_violations disappear only in a run of
\* cleanup_old_violations, and only when older than its cutoff
ViolationsOnlyPurgedOld ==
    \A v \in violations :
        (\A w \in violations' : w.id # v.id) =>
            /\ SweepOf("rate_limit_violations")
            /\ v.created_at < now - sweeps'[Len(sweeps')].days

\* a run of cleanup_old_records leaves rate_limit_violations as it is
RecordSweepLeavesViolations ==
    SweepOf("rate_limits") => violations' = violations

\* C22 as stated: no step changes an existing row of rate_limit_violations;
\* rows are added only by log_violation and removed only by
\* cleanup_old_violations when older than the cutoff; cleanup_old_records
\* leaves every row.
C22_NeverModified ==
    [][/\ ViolationsOnlyLogged
       /\ ViolationsOnlyPurgedOld
       /\ RecordSweepLeavesViolations
       /\ \A v \in violations, w \in violations' : w.id = v.id => w = v]_vars

\* C22: rows of rate_limit_violations are added only by log_violation and
\* removed only by cleanup_old_violations when older than the cutoff;
\* cleanup_old_records leaves every row; an existing row never changes,
\* except that the hard delete of its user sets its user_id to NULL.
C22_AppendOnlyButUserId ==
    [][/\ ViolationsOnlyLogged
       /\ ViolationsOnlyPurgedOld
       /\ RecordSweepLeavesViolations
       /\ \A v \in violations, w \in violations' :
             w.id = v.id =>
                 \/ w = v
                 \/ /\ w = [v EXCEPT !.user_id = NULL]
                    /\ v.user_id \in users \ users']_vars

\* a run of cleanup_old_records deleted windows and left a violation older
\* than its cutoff, a run of cleanup_old_violations deleted a violation, and a
\* remaining violation lost its user
C22_Witness ==
    /\ \E i \in 1..Len(sweeps) :
          /\ sweeps[i].table = "rate_limits"
          /\ sweeps[i].before # sweeps[i].after
          /\ \E v \in violations : v.created_at < sweeps[i].now - sweeps[i].days
    /\ \E i \in 1..Len(sweeps) :
          /\ sweeps[i].table = "rate_limit_violations"
          /\ sweeps[i].before # sweeps[i].after
    /\ \E v \in violations : v.user_id = NULL

====
